---- MODULE Spec2Model ----
(***************************************************************************)
(* Dice rolling: the Dice value object, the random sources and the roll    *)
(* strategies of Cewerty/DiceRolling.                                      *)
(*                                                                         *)
(* Three revisions of the code live side by side in the repository:        *)
(*   package   src/src/diceroller/{dice,dice_strategies,dice_factory}.py   *)
(*   root      src/diceStrategies.py (strategies; they read the Dice API   *)
(*             of the package: randomization_strategy, smallest_side,      *)
(*             biggest_side)                                               *)
(*   root      src/dice.py (an older, mutable Dice)                        *)
(* Each revision has its own specification below; the variables are        *)
(* shared.  Further specifications cover the factories (SpecFactory) and   *)
(* threads that construct Sum-of-N strategies concurrently (SpecThreads    *)
(* for the package, SpecRootThreads for the root-level revision).          *)
(*                                                                         *)
(* A Python call is an operator that returns a record: exc is the name of  *)
(* the exception the call raises ("None" when it returns), value what it   *)
(* returns, calls the calls it made to the random source, in order.        *)
(***************************************************************************)
EXTENDS Integers, Sequences, FiniteSets, TLC

VARIABLES
    dice,       \* the Dice object the caller holds (NoDice before the first one)
    given,      \* history: the constructor arguments dice was built from
    instances,  \* MultipleRoll._instances: times -> instance
    heap,       \* the MultipleRoll objects that exist: instance -> its attributes
    held,       \* the outcomes of MultipleRoll(times) the caller keeps under the names a and b
    last,       \* the last call the caller made, with its arguments and its outcome
    threads,    \* per thread: where it stands in MultipleRoll(times) and what it holds
    diceFactory, \* the DiceFactory the caller built (NoFactory before)
    made        \* what the calls on the factory returned, in order: name -> Dice

vars == <<dice, given, instances, heap, held, last, threads, diceFactory, made>>

---------------------------------------------------------------------------
(* Bounds of the model *)

MaxSide == 2
MaxModifier == 2
MaxTimes == 2
NumThreads == 2
MaxCalls == 3

Sides == -1 .. MaxSide
Modifiers == {-MaxModifier, 0, MaxModifier}
Thresholds == 0 .. (MaxSide + 1)
TimesArgs == -1 .. MaxTimes
\* the bounds a caller hands to randint directly
Ranges == -1 .. (MaxSide + 2)
\* what the generator behind a random source contributes to one draw
Entropy == 0 .. (MaxSide + 3)

---------------------------------------------------------------------------
(* Python values *)

Raise(e) == [exc |-> e, value |-> 0, calls |-> <<>>]
Return(v) == [exc |-> "None", value |-> v, calls |-> <<>>]

Min(a, b) == IF a <= b THEN a ELSE b
Max(a, b) == IF a >= b THEN a ELSE b

NoDice == [kind |-> "NoDice"]
NoCall == [op |-> "none"]
NoFactory == [cls |-> "NoFactory"]

\* the threads of the process, and a thread that has not called anything
Threads == 1 .. NumThreads
Idle == [pc |-> "idle"]

DefaultRandomStrategy == [cls |-> "DefaultRandomStrategy"]
PseudoRandomStrategy == [cls |-> "PseudoRandomStrategy"]
NumPyStrategy == [cls |-> "NumPyStrategy"]
RandomStrategies == {DefaultRandomStrategy, PseudoRandomStrategy, NumPyStrategy}

---------------------------------------------------------------------------
(* Random sources: src/src/diceroller/dice_strategies.py 62-124, the same  *)
(* text as src/diceStrategies.py 60-122.                                   *)

\* random.Random.randint(a, b) is randrange(a, b + 1): it raises ValueError
\* on an empty range and returns a + (a value below the width) otherwise.
Random_randint(a, b, e) ==
    IF b + 1 - a <= 0
    THEN Raise("ValueError")
    ELSE Return(a + (e % (b + 1 - a)))

\* numpy.random.Generator.integers(low, high): the high end is excluded;
\* it raises ValueError when low >= high.
Generator_integers(low, high, e) ==
    IF low >= high
    THEN Raise("ValueError")
    ELSE Return(low + (e % (high - low)))

DefaultRandomStrategy_randint(smallest, biggest, e) ==
    Random_randint(smallest, biggest, e)

PseudoRandomStrategy_randint(smallest, biggest, e) ==
    Random_randint(smallest, biggest, e)

\* NumPyStrategy.randint were it to pass biggest as the excluded high end
NumPyStrategy_randint_NoPlusOne(smallest, biggest, e) ==
    Generator_integers(smallest, biggest, e)

NumPyStrategy_randint(smallest, biggest, e) ==
    Generator_integers(smallest, biggest + 1, e)

\* rs.randint(smallest, biggest) on the random source rs
randint(rs, smallest, biggest, e) ==
    CASE rs.cls = "DefaultRandomStrategy" -> DefaultRandomStrategy_randint(smallest, biggest, e)
      [] rs.cls = "PseudoRandomStrategy" -> PseudoRandomStrategy_randint(smallest, biggest, e)
      [] rs.cls = "NumPyStrategy" -> NumPyStrategy_randint(smallest, biggest, e)

---------------------------------------------------------------------------
(* Specification of the random sources alone: a caller draws directly.     *)

InitIdle ==
    /\ dice = NoDice
    /\ given = NoDice
    /\ instances = <<>>
    /\ heap = <<>>
    /\ held = [a |-> NoCall, b |-> NoCall]
    /\ last = NoCall
    /\ threads = [t \in Threads |-> Idle]
    /\ diceFactory = NoFactory
    /\ made = <<>>

CallRandint ==
    \E rs \in RandomStrategies, smallest \in Ranges, biggest \in Ranges, e \in Entropy :
        /\ last' = [op |-> "randint", rs |-> rs, smallest |-> smallest,
                    biggest |-> biggest, ret |-> randint(rs, smallest, biggest, e)]
        /\ UNCHANGED <<dice, given, instances, heap, held, threads, diceFactory, made>>

NextRandom == CallRandint

SpecRandom == InitIdle /\ [][NextRandom]_vars

---------------------------------------------------------------------------
(* C10: every random source returns r with smallest <= r <= biggest when   *)
(* smallest <= biggest, and raises an error instead of returning a value   *)
(* when smallest > biggest.                                                *)
C10_DrawContract ==
    last.op = "randint" =>
        IF last.smallest <= last.biggest
        THEN /\ last.ret.exc = "None"
             /\ last.smallest <= last.ret.value
             /\ last.ret.value <= last.biggest
        ELSE last.ret.exc # "None"

\* a NumPy draw on a range of several values returned its upper end
C10_Witness ==
    /\ last.op = "randint"
    /\ last.rs = NumPyStrategy
    /\ last.smallest < last.biggest
    /\ last.ret.exc = "None"
    /\ last.ret.value = last.biggest

---------------------------------------------------------------------------
(* Roll strategies on a Dice: src/src/diceroller/dice_strategies.py        *)
(* 144-199, the same text as src/diceStrategies.py 142-197.  tape is what  *)
(* the generator contributes to the successive draws of this call.         *)

DefaultRoll == [cls |-> "DefaultRoll"]
DisadvantageRoll == [cls |-> "DisadvantageRoll"]
AdvantageRoll == [cls |-> "AdvantageRoll"]
PlainStrategies == {DefaultRoll, DisadvantageRoll, AdvantageRoll}
None == [cls |-> "None"]

\* the read-only properties of Dice: src/src/diceroller/dice.py 62-113
smallest_side(self) == self._smallest_side
biggest_side(self) == self._biggest_side
randomization_strategy(self) == self._randomization_strategy
roll_strategy(self) == self._roll_strategy

\* dice.randomization_strategy.randint(dice.smallest_side, dice.biggest_side),
\* with the call as the random source saw it
Draw(d, e) ==
    LET r == randint(randomization_strategy(d), smallest_side(d), biggest_side(d), e)
    IN  [exc |-> r.exc, value |-> r.value,
         rs |-> randomization_strategy(d),
         smallest |-> smallest_side(d), biggest |-> biggest_side(d)]

DefaultRoll_roll(d, modifier, tape) ==
    LET c == Draw(d, tape[1])
    IN  IF c.exc # "None"
        THEN [exc |-> c.exc, value |-> 0, calls |-> <<c>>]
        ELSE [exc |-> "None", value |-> c.value + modifier, calls |-> <<c>>]

DisadvantageRoll_roll(d, modifier, tape) ==
    LET first_roll == Draw(d, tape[1])
        second_roll == Draw(d, tape[2])
    IN  IF first_roll.exc # "None"
        THEN [exc |-> first_roll.exc, value |-> 0, calls |-> <<first_roll>>]
        ELSE IF second_roll.exc # "None"
        THEN [exc |-> second_roll.exc, value |-> 0, calls |-> <<first_roll, second_roll>>]
        ELSE [exc |-> "None",
              value |-> Min(first_roll.value, second_roll.value) + modifier,
              calls |-> <<first_roll, second_roll>>]

\* AdvantageRoll.roll were it to take the lowest draw
AdvantageRoll_roll_TakesLowest(d, modifier, tape) ==
    DisadvantageRoll_roll(d, modifier, tape)

AdvantageRoll_roll(d, modifier, tape) ==
    LET first_roll == Draw(d, tape[1])
        second_roll == Draw(d, tape[2])
    IN  IF first_roll.exc # "None"
        THEN [exc |-> first_roll.exc, value |-> 0, calls |-> <<first_roll>>]
        ELSE IF second_roll.exc # "None"
        THEN [exc |-> second_roll.exc, value |-> 0, calls |-> <<first_roll, second_roll>>]
        ELSE [exc |-> "None",
              value |-> Max(first_roll.value, second_roll.value) + modifier,
              calls |-> <<first_roll, second_roll>>]

---------------------------------------------------------------------------
(* MultipleRoll.roll: src/src/diceroller/dice_strategies.py 273-306, the   *)
(* same text as src/diceStrategies.py 242-275.  h is the heap; an object   *)
(* whose _times was never set has init = FALSE.                            *)

MultipleRoll_times(h, self) ==
    IF h[self.id].init THEN Return(h[self.id]._times) ELSE Raise("AttributeError")

\* sum(randint(...) for _ in range(n)): the draws i .. n, stopped by the
\* first one that raises
RECURSIVE SumDraws(_, _, _, _)
SumDraws(d, n, tape, i) ==
    IF i > n
    THEN [exc |-> "None", value |-> 0, calls |-> <<>>]
    ELSE LET c == Draw(d, tape[i])
         IN  IF c.exc # "None"
             THEN [exc |-> c.exc, value |-> 0, calls |-> <<c>>]
             ELSE LET rest == SumDraws(d, n, tape, i + 1)
                  IN  [exc |-> rest.exc,
                       value |-> IF rest.exc = "None" THEN c.value + rest.value ELSE 0,
                       calls |-> <<c>> \o rest.calls]

MultipleRoll_roll(h, self, d, modifier, tape) ==
    LET t == MultipleRoll_times(h, self)
    IN  IF t.exc # "None"
        THEN Raise(t.exc)
        ELSE LET s == SumDraws(d, t.value, tape, 1)
             IN  IF s.exc # "None"
                 THEN s
                 ELSE [exc |-> "None", value |-> s.value + modifier, calls |-> s.calls]

\* strategy.roll(dice, modifier): the call goes to the class of strategy
Strategy_roll(h, strategy, d, modifier, tape) ==
    CASE strategy.cls = "DefaultRoll" -> DefaultRoll_roll(d, modifier, tape)
      [] strategy.cls = "DisadvantageRoll" -> DisadvantageRoll_roll(d, modifier, tape)
      [] strategy.cls = "AdvantageRoll" -> AdvantageRoll_roll(d, modifier, tape)
      [] strategy.cls = "MultipleRoll" -> MultipleRoll_roll(h, strategy, d, modifier, tape)

\* how many draws the generator has to be ready for
TapeLen(h, strategy) ==
    CASE strategy.cls = "DefaultRoll" -> 1
      [] strategy.cls = "MultipleRoll" ->
            IF h[strategy.id].init THEN Max(0, h[strategy.id]._times) ELSE 0
      [] OTHER -> 2

\* the generator's contributions to n draws on d: one per face is enough
Tapes(d, n) == [1 .. n -> 0 .. Max(0, biggest_side(d) - smallest_side(d))]

---------------------------------------------------------------------------
(* Dice of the package: src/src/diceroller/dice.py                         *)

Omitted == [cls |-> "Omitted"]

\* the field defaults (default_factory), lines 45-46
DefaultOf(arg, factory) == IF arg = Omitted THEN factory ELSE arg

NewSelf(smallest, biggest, rs, strategy) ==
    [kind |-> "Dice",
     _smallest_side |-> smallest,
     _biggest_side |-> biggest,
     _randomization_strategy |-> DefaultOf(rs, DefaultRandomStrategy),
     _roll_strategy |-> DefaultOf(strategy, DefaultRoll)]

\* __post_init__ were it to compare with > and let smallest = biggest pass
Dice_post_init_AllowsOneFace(self) ==
    IF smallest_side(self) > biggest_side(self) \/ smallest_side(self) < 0
    THEN "ValueError"
    ELSE "None"

\* __post_init__ were it to reject a negative smallest side only
Dice_post_init_AllowsInverted(self) ==
    IF smallest_side(self) < 0 THEN "ValueError" ELSE "None"

\* __post_init__, lines 48-60: the exception it raises
Dice_post_init(self) ==
    IF smallest_side(self) >= biggest_side(self) \/ smallest_side(self) < 0
    THEN "ValueError"
    ELSE "None"

\* Dice(smallest, biggest, rs, strategy): the generated __init__ stores the
\* fields and calls __post_init__; value is the object the caller gets
Dice_new(smallest, biggest, rs, strategy) ==
    LET self == NewSelf(smallest, biggest, rs, strategy)
        e == Dice_post_init(self)
    IN  [exc |-> e, value |-> IF e = "None" THEN self ELSE NoDice]

\* roll were it to clamp the result to the die's sides
Dice_roll_Clamped(h, self, modifier, inserted_roll_strategy, tape) ==
    LET by == IF inserted_roll_strategy = None
              THEN roll_strategy(self) ELSE inserted_roll_strategy
        r == Strategy_roll(h, by, self, modifier, tape)
    IN  [exc |-> r.exc,
         value |-> Max(smallest_side(self), Min(biggest_side(self), r.value)),
         calls |-> r.calls,
         modifier |-> modifier, by |-> by, returned |-> [exc |-> r.exc, value |-> r.value],
         self |-> self]

\* roll were it to bind the strategy it used to the die
Dice_roll_KeepsOverride(h, self, modifier, inserted_roll_strategy, tape) ==
    LET by == IF inserted_roll_strategy = None
              THEN roll_strategy(self) ELSE inserted_roll_strategy
        r == Strategy_roll(h, by, self, modifier, tape)
    IN  [exc |-> r.exc, value |-> r.value, calls |-> r.calls,
         modifier |-> modifier, by |-> by, returned |-> [exc |-> r.exc, value |-> r.value],
         self |-> [self EXCEPT !._roll_strategy = by]]

\* roll, lines 129-147.  by is the strategy the call went to, returned what
\* that strategy gave back, self the object after the call.
Dice_roll(h, self, modifier, inserted_roll_strategy, tape) ==
    LET by == IF inserted_roll_strategy = None
              THEN roll_strategy(self) ELSE inserted_roll_strategy
        r == Strategy_roll(h, by, self, modifier, tape)
    IN  [exc |-> r.exc, value |-> r.value, calls |-> r.calls,
         modifier |-> modifier, by |-> by, returned |-> [exc |-> r.exc, value |-> r.value],
         self |-> self]

\* check_success were it to compare with >
Dice_check_success_Strict(h, self, check, inserted_roll_strategy, tape) ==
    LET r == Dice_roll(h, self, 0, inserted_roll_strategy, tape)
    IN  [exc |-> r.exc,
         value |-> IF r.exc = "None" THEN r.value > check ELSE FALSE,
         rolls |-> <<r>>, self |-> r.self]

\* check_success, lines 115-127: rolls are the calls it made to roll
Dice_check_success(h, self, check, inserted_roll_strategy, tape) ==
    LET r == Dice_roll(h, self, 0, inserted_roll_strategy, tape)
    IN  [exc |-> r.exc,
         value |-> IF r.exc = "None" THEN r.value >= check ELSE FALSE,
         rolls |-> <<r>>, self |-> r.self]

FieldNames == {"_smallest_side", "_biggest_side", "_randomization_strategy", "_roll_strategy"}

\* self.<name> = v on the frozen dataclass (line 27): the generated
\* __setattr__ raises FrozenInstanceError for every field
Dice_setattr(self, name, v) ==
    [exc |-> "FrozenInstanceError", self |-> self]

---------------------------------------------------------------------------
(* Specification of the package's Dice: a caller constructs dice, rolls,   *)
(* checks and tries to assign to fields.                                   *)

NewDice ==
    \E smallest \in Sides, biggest \in Sides,
       rs \in RandomStrategies \cup {Omitted} :
      \E strategy \in IF rs = Omitted THEN {Omitted} ELSE PlainStrategies \cup {Omitted} :
        LET r == Dice_new(smallest, biggest, rs, strategy)
        IN  /\ dice' = IF r.exc = "None" THEN r.value ELSE dice
            /\ given' = IF r.exc = "None" THEN r.value ELSE given
            /\ last' = [op |-> "Dice", smallest |-> smallest, biggest |-> biggest,
                        ret |-> r]
            /\ UNCHANGED <<instances, heap, held, threads, diceFactory, made>>

Roll ==
    /\ dice # NoDice
    /\ \E modifier \in Modifiers, inserted \in PlainStrategies \cup {None} :
        \E tape \in Tapes(dice, TapeLen(heap, IF inserted = None THEN roll_strategy(dice) ELSE inserted)) :
            LET r == Dice_roll(heap, dice, modifier, inserted, tape)
            IN  /\ dice' = r.self
                /\ last' = [op |-> "roll", modifier |-> modifier, inserted |-> inserted,
                            ret |-> r]
                /\ UNCHANGED <<given, instances, heap, held, threads, diceFactory, made>>

CheckSuccess ==
    /\ dice # NoDice
    /\ \E check \in Thresholds, inserted \in PlainStrategies \cup {None} :
        \E tape \in Tapes(dice, TapeLen(heap, IF inserted = None THEN roll_strategy(dice) ELSE inserted)) :
            LET r == Dice_check_success(heap, dice, check, inserted, tape)
            IN  /\ dice' = r.self
                /\ last' = [op |-> "check_success", check |-> check, inserted |-> inserted,
                            ret |-> r]
                /\ UNCHANGED <<given, instances, heap, held, threads, diceFactory, made>>

SetAttr ==
    /\ dice # NoDice
    /\ \E name \in FieldNames :
        LET r == Dice_setattr(dice, name, 0)
        IN  /\ dice' = r.self
            /\ last' = [op |-> "setattr", name |-> name, ret |-> [exc |-> r.exc]]
            /\ UNCHANGED <<given, instances, heap, held, threads, diceFactory, made>>

Next ==
    \/ NewDice
    \/ Roll
    \/ CheckSuccess
    \/ SetAttr

Spec == InitIdle /\ [][Next]_vars

---------------------------------------------------------------------------
(* C1: constructing a Dice of the package succeeds for every pair with     *)
(* 0 <= smallest < biggest, with default or with explicit strategies, and  *)
(* fails with ValueError for every other pair; no Dice with other sides    *)
(* comes to exist.                                                         *)
C1_Construction ==
    /\ last.op = "Dice" =>
        IF 0 <= last.smallest /\ last.smallest < last.biggest
        THEN /\ last.ret.exc = "None"
             /\ last.ret.value.kind = "Dice"
             /\ last.ret.value._smallest_side = last.smallest
             /\ last.ret.value._biggest_side = last.biggest
             /\ dice = last.ret.value
        ELSE /\ last.ret.exc = "ValueError"
             /\ last.ret.value = NoDice
    /\ dice # NoDice =>
        /\ 0 <= dice._smallest_side
        /\ dice._smallest_side < dice._biggest_side

\* a die whose smallest side is 0 was built, with an explicit roll strategy
C1_Witness ==
    /\ last.op = "Dice"
    /\ last.ret.exc = "None"
    /\ last.smallest = 0
    /\ dice._roll_strategy = AdvantageRoll

---------------------------------------------------------------------------
(* C5: check_success(check, inserted) makes exactly one roll, with         *)
(* modifier 0, by the inserted strategy when one is given and by the       *)
(* die's bound strategy otherwise, and returns TRUE exactly when that      *)
(* roll's result is >= check.                                              *)
C5_CheckSuccess ==
    last.op = "check_success" =>
        /\ last.ret.exc = "None"
        /\ Len(last.ret.rolls) = 1
        /\ last.ret.rolls[1].modifier = 0
        /\ last.ret.rolls[1].by =
              IF last.inserted = None THEN given._roll_strategy ELSE last.inserted
        /\ last.ret.rolls[1].exc = "None"
        /\ last.ret.value = (last.ret.rolls[1].value >= last.check)
        /\ last.ret.rolls[1].by = DefaultRoll =>
              last.ret.value = (last.ret.rolls[1].calls[1].value >= last.check)

\* a check against exactly the value drawn succeeded, with an inserted
\* strategy that is not the bound one
C5_Witness ==
    /\ last.op = "check_success"
    /\ last.inserted = DefaultRoll
    /\ given._roll_strategy = AdvantageRoll
    /\ last.ret.rolls[1].calls[1].value = last.check
    /\ last.ret.value = TRUE

---------------------------------------------------------------------------
(* C6: roll(modifier, inserted) returns what the strategy it delegates to  *)
(* returned, unchanged and from a single call of it: the inserted strategy *)
(* when one is given, the bound one otherwise.  The inserted strategy is   *)
(* used for that call only: the die keeps the strategy it was built with.  *)
DrawsOf(strategy) == IF strategy = DefaultRoll THEN 1 ELSE 2

C6_RollDelegates ==
    /\ last.op = "roll" =>
        /\ last.ret.by =
              IF last.inserted = None THEN given._roll_strategy ELSE last.inserted
        /\ last.ret.exc = last.ret.returned.exc
        /\ last.ret.value = last.ret.returned.value
        /\ Len(last.ret.calls) = DrawsOf(last.ret.by)
    /\ dice # NoDice => dice._roll_strategy = given._roll_strategy

\* a roll with an inserted strategy other than the bound one returned a
\* value above the die's biggest side
C6_Witness ==
    /\ last.op = "roll"
    /\ last.inserted # None
    /\ last.inserted # dice._roll_strategy
    /\ last.ret.exc = "None"
    /\ last.ret.value > dice._biggest_side

---------------------------------------------------------------------------
(* C8: on a die with sides [a, b] and modifier m, DefaultRoll draws once   *)
(* and returns d + m, AdvantageRoll draws twice and returns                *)
(* max(d1, d2) + m, DisadvantageRoll draws twice and returns               *)
(* min(d1, d2) + m; every draw is asked of the die's own random source     *)
(* with (a, b), so the result lies in [a + m, b + m].                      *)
C8_PlainRolls ==
    last.op = "roll" =>
        LET r == last.ret
            m == last.modifier
            c == r.calls
        IN  /\ r.exc = "None"
            /\ \A i \in 1 .. Len(c) :
                  /\ c[i].rs = dice._randomization_strategy
                  /\ c[i].smallest = dice._smallest_side
                  /\ c[i].biggest = dice._biggest_side
                  /\ c[i].exc = "None"
            /\ r.by = DefaultRoll => Len(c) = 1 /\ r.value = c[1].value + m
            /\ r.by = AdvantageRoll =>
                  Len(c) = 2 /\ r.value = Max(c[1].value, c[2].value) + m
            /\ r.by = DisadvantageRoll =>
                  Len(c) = 2 /\ r.value = Min(c[1].value, c[2].value) + m
            /\ dice._smallest_side + m <= r.value
            /\ r.value <= dice._biggest_side + m

\* an advantage roll whose second draw was the higher one
C8_Witness ==
    /\ last.op = "roll"
    /\ last.ret.by = AdvantageRoll
    /\ last.modifier # 0
    /\ last.ret.calls[1].value < last.ret.calls[2].value
    /\ last.ret.value = last.ret.calls[2].value + last.modifier

---------------------------------------------------------------------------
(* Dice of the root-level revision: src/dice.py.  A dataclass with slots   *)
(* that is not frozen; its fields are _smallest_side, _biggest_side,       *)
(* _randomizationStrategy and _rollStrategy, kept here under the names of  *)
(* the package's fields.  roll and check_success (lines 49-53) hand the    *)
(* die to its strategy; the module imports names src/diceStrategies.py     *)
(* does not define, and the strategies of that file read                   *)
(* dice.randomization_strategy where this Dice has randomizationStrategy,  *)
(* so a strategy of the sources fails on a Dice of this revision before it *)
(* reaches the random source.                                              *)

\* __post_init__, lines 22-27: on sides it rejects it RETURNS a ValueError
\* object; it raises nothing.  value is what it returns.
RootDice_post_init(self) ==
    IF ~ ( (self._smallest_side >= 0)
           /\ ( (self._smallest_side # self._biggest_side)
                \/ (self._smallest_side > self._biggest_side) ) )
    THEN [exc |-> "None", value |-> "ValueError"]
    ELSE [exc |-> "None", value |-> "NoneType"]

\* Dice(smallest, biggest, rs, strategy): the generated __init__ stores the
\* fields, calls __post_init__ and drops what it returns
RootDice_new(smallest, biggest, rs, strategy) ==
    LET self == NewSelf(smallest, biggest, rs, strategy)
        p == RootDice_post_init(self)
    IN  [exc |-> p.exc, value |-> IF p.exc = "None" THEN self ELSE NoDice]

\* the rollStrategy setter, lines 45-47
RootDice_set_rollStrategy(self, newRollStrategy) ==
    [exc |-> "None", self |-> [self EXCEPT !._roll_strategy = newRollStrategy]]

\* DefaultRoll.roll, DisadvantageRoll.roll, AdvantageRoll.roll of
\* src/diceStrategies.py (lines 142-197) on a Dice of this revision: their
\* first step reads dice.randomization_strategy, an attribute this Dice
\* does not have
RootStrategy_roll(strategy, d, modifier) ==
    [exc |-> "AttributeError", value |-> 0, calls |-> <<>>]

\* roll, lines 52-53
RootDice_roll(self, modifier) ==
    LET r == RootStrategy_roll(roll_strategy(self), self, modifier)
    IN  [exc |-> r.exc, value |-> r.value, calls |-> r.calls, self |-> self]

\* check_success, lines 49-50
RootDice_check_success(self, check) ==
    LET r == RootDice_roll(self, 0)
    IN  [exc |-> r.exc,
         value |-> IF r.exc = "None" THEN r.value >= check ELSE FALSE,
         rolls |-> <<r>>, self |-> r.self]

RootNewDice ==
    \E smallest \in Sides, biggest \in Sides,
       rs \in RandomStrategies \cup {Omitted} :
      \E strategy \in IF rs = Omitted THEN {Omitted} ELSE PlainStrategies \cup {Omitted} :
        LET r == RootDice_new(smallest, biggest, rs, strategy)
        IN  /\ dice' = IF r.exc = "None" THEN r.value ELSE dice
            /\ given' = IF r.exc = "None" THEN r.value ELSE given
            /\ last' = [op |-> "Dice", smallest |-> smallest, biggest |-> biggest,
                        ret |-> r]
            /\ UNCHANGED <<instances, heap, held, threads, diceFactory, made>>

RootSetRollStrategy ==
    /\ dice # NoDice
    /\ \E newRollStrategy \in PlainStrategies :
        LET r == RootDice_set_rollStrategy(dice, newRollStrategy)
        IN  /\ dice' = r.self
            /\ last' = [op |-> "setattr", name |-> "rollStrategy", ret |-> [exc |-> r.exc]]
            /\ UNCHANGED <<given, instances, heap, held, threads, diceFactory, made>>

RootRoll ==
    /\ dice # NoDice
    /\ \E modifier \in Modifiers :
        LET r == RootDice_roll(dice, modifier)
        IN  /\ dice' = r.self
            /\ last' = [op |-> "roll", modifier |-> modifier, inserted |-> None, ret |-> r]
            /\ UNCHANGED <<given, instances, heap, held, threads, diceFactory, made>>

RootCheckSuccess ==
    /\ dice # NoDice
    /\ \E check \in Thresholds :
        LET r == RootDice_check_success(dice, check)
        IN  /\ dice' = r.self
            /\ last' = [op |-> "check_success", check |-> check, inserted |-> None,
                        ret |-> r]
            /\ UNCHANGED <<given, instances, heap, held, threads, diceFactory, made>>

NextRootDice ==
    \/ RootNewDice
    \/ RootSetRollStrategy
    \/ RootRoll
    \/ RootCheckSuccess

SpecRootDice == InitIdle /\ [][NextRootDice]_vars

---------------------------------------------------------------------------
(* C9: in the root-level revision, constructing a Dice with smallest equal *)
(* to or greater than biggest, or with a negative smallest side, raises    *)
(* an error, so that no such Dice comes to exist.                          *)
C9_RootConstructionFails ==
    /\ (last.op = "Dice" /\ (last.smallest >= last.biggest \/ last.smallest < 0)) =>
          /\ last.ret.exc # "None"
          /\ last.ret.value = NoDice
    /\ dice # NoDice =>
          /\ 0 <= dice._smallest_side
          /\ dice._smallest_side < dice._biggest_side

---------------------------------------------------------------------------
(* C7: a Dice is immutable: after any calls and attempted assignments its  *)
(* sides, random source and roll strategy are the ones given at            *)
(* construction, and an attempted assignment is rejected.  (The formula    *)
(* holds of the package's frozen Dice, under Spec.)                        *)
C7_Immutable ==
    /\ dice # NoDice => dice = given
    /\ last.op = "setattr" => last.ret.exc # "None"

---------------------------------------------------------------------------
(* MultipleRoll of the package: src/src/diceroller/dice_strategies.py      *)
(* 202-306, a frozen dataclass with slots whose cache _instances is a      *)
(* WeakValueDictionary.  An object is named by the key it was made for and *)
(* the number of objects made for that key before it.                      *)

Object(h, times) ==
    [cls |-> "MultipleRoll", id |-> <<times, Cardinality({i \in DOMAIN h : i[1] = times})>>]

\* __new__, lines 238-260.  On a miss line 257 calls super().__new__()
\* without the class: inside a dataclass with slots the zero-argument
\* super() raises TypeError (the decorator rebuilt the class), and where it
\* does not, object.__new__() without an argument raises TypeError.  No
\* object is made and nothing is stored.
MultipleRoll_new(inst, h, times) ==
    IF times \in DOMAIN inst
    THEN [exc |-> "None", value |-> inst[times], instances |-> inst, heap |-> h]
    ELSE [exc |-> "TypeError", value |-> None, instances |-> inst, heap |-> h]

\* the generated __init__ of the dataclass stores the field times
MultipleRoll_init(h, self, times) ==
    [h EXCEPT ![self.id] = [init |-> TRUE, _times |-> times]]

\* MultipleRoll(times): __new__, then __init__ on the object it returned
MultipleRoll_call(inst, h, times) ==
    LET n == MultipleRoll_new(inst, h, times)
    IN  IF n.exc # "None"
        THEN n
        ELSE [n EXCEPT !.heap = MultipleRoll_init(n.heap, n.value, times)]

\* __eq__, lines 222-236
MultipleRoll_eq(h, self, other) ==
    /\ other.cls = "MultipleRoll"
    /\ h[other.id]._times = h[self.id]._times

\* clear_instances, lines 262-271
MultipleRoll_clear_instances(inst) == <<>>

\* the objects the caller's names a and b refer to
Referenced(h) ==
    { c.ret.value : c \in { x \in {h.a, h.b} : x.op = "MultipleRoll" /\ x.ret.exc = "None" } }

\* WeakValueDictionary, line 207: an entry lasts as long as something
\* other than the dictionary refers to its value
WeakValueDictionary_live(inst, alive) ==
    [k \in {x \in DOMAIN inst : inst[x] \in alive} |-> inst[k]]

\* the dice a caller can hold: every one the package's constructor returns
\* for sides within the bounds, with the default strategies
SomeDice ==
    { r.value : r \in { x \in { Dice_new(smallest, biggest, Omitted, Omitted) :
                                  smallest \in Sides, biggest \in Sides } :
                        x.exc = "None" } }

InitWithDice ==
    /\ dice \in SomeDice
    /\ given = dice
    /\ instances = <<>>
    /\ heap = <<>>
    /\ held = [a |-> NoCall, b |-> NoCall]
    /\ last = NoCall
    /\ threads = [t \in Threads |-> Idle]
    /\ diceFactory = NoFactory
    /\ made = <<>>

\* s = MultipleRoll(times)
NewMultipleRoll ==
    \E times \in TimesArgs :
        LET r == MultipleRoll_call(instances, heap, times)
            outcome == [op |-> "MultipleRoll", times |-> times,
                        ret |-> [exc |-> r.exc, value |-> r.value]]
        IN  /\ instances' = r.instances
            /\ heap' = r.heap
            /\ held' = [a |-> held.b, b |-> outcome]
            /\ last' = outcome
            /\ UNCHANGED <<dice, given, threads, diceFactory, made>>

\* MultipleRoll.clear_instances()
ClearInstances ==
    /\ instances' = MultipleRoll_clear_instances(instances)
    /\ last' = [op |-> "clear_instances"]
    /\ UNCHANGED <<dice, given, heap, held, threads, diceFactory, made>>

\* del a, b: the caller drops the references it holds
DropReferences ==
    /\ held # [a |-> NoCall, b |-> NoCall]
    /\ held' = [a |-> NoCall, b |-> NoCall]
    /\ instances' = WeakValueDictionary_live(instances, Referenced(held'))
    /\ last' = [op |-> "del"]
    /\ UNCHANGED <<dice, given, heap, threads, diceFactory, made>>

\* dice.roll(modifier, MultipleRoll(times)): the argument is evaluated
\* first, and roll is not called when that raises
RollSumOfN ==
    \E times \in TimesArgs, modifier \in Modifiers :
        LET c == MultipleRoll_call(instances, heap, times)
        IN  /\ instances' = c.instances
            /\ heap' = c.heap
            /\ IF c.exc # "None"
               THEN /\ dice' = dice
                    /\ last' = [op |-> "roll_sum", times |-> times, modifier |-> modifier,
                                ret |-> [exc |-> c.exc, value |-> 0, calls |-> <<>>]]
               ELSE \E tape \in Tapes(dice, TapeLen(c.heap, c.value)) :
                        LET r == Dice_roll(c.heap, dice, modifier, c.value, tape)
                        IN  /\ dice' = r.self
                            /\ last' = [op |-> "roll_sum", times |-> times,
                                        modifier |-> modifier,
                                        ret |-> [exc |-> r.exc, value |-> r.value,
                                                 calls |-> r.calls]]
            /\ UNCHANGED <<given, held, threads, diceFactory, made>>

NextSumOfN ==
    \/ NewMultipleRoll
    \/ ClearInstances
    \/ DropReferences
    \/ RollSumOfN

SpecSumOfN == InitWithDice /\ [][NextSumOfN]_vars

---------------------------------------------------------------------------
(* C3: on a die with sides [a, b], rolling with a Sum-of-N strategy of     *)
(* times = k >= 1 and modifier m makes exactly k draws, each with (a, b),  *)
(* and returns their sum plus m, a value of [k*a + m, k*b + m].            *)
RECURSIVE SumOfValues(_)
SumOfValues(c) == IF c = <<>> THEN 0 ELSE Head(c).value + SumOfValues(Tail(c))

C3_SumOfN ==
    (last.op = "roll_sum" /\ last.times >= 1) =>
        LET r == last.ret
            k == last.times
        IN  /\ r.exc = "None"
            /\ Len(r.calls) = k
            /\ \A i \in 1 .. Len(r.calls) :
                  /\ r.calls[i].smallest = dice._smallest_side
                  /\ r.calls[i].biggest = dice._biggest_side
            /\ r.value = SumOfValues(r.calls) + last.modifier
            /\ k * dice._smallest_side + last.modifier <= r.value
            /\ r.value <= k * dice._biggest_side + last.modifier

---------------------------------------------------------------------------
(* C4: two Sum-of-N strategies constructed with the same times compare     *)
(* equal, also across a clear_instances, and two constructed with          *)
(* different times never compare equal.                                    *)
C4_ValueEquality ==
    ( /\ held.a.op = "MultipleRoll" /\ held.a.times >= 1
      /\ held.b.op = "MultipleRoll" /\ held.b.times >= 1 ) =>
        /\ held.a.ret.exc = "None"
        /\ held.b.ret.exc = "None"
        /\ MultipleRoll_eq(heap, held.a.ret.value, held.b.ret.value)
              <=> (held.a.times = held.b.times)

---------------------------------------------------------------------------
(* MultipleRoll of the root-level revision: src/diceStrategies.py 200-275. *)
(* _instances is a plain dict; the class defines neither __eq__ nor        *)
(* clear_instances.                                                        *)

\* __new__ keeping one entry only: what a cache that evicts would do
RootMultipleRoll_new_Evicting(inst, h, times) ==
    IF times \notin DOMAIN inst
    THEN LET instance == Object(h, times)
         IN  [exc |-> "None", value |-> instance,
              instances |-> (times :> instance),
              heap |-> h @@ (instance.id :> [init |-> FALSE, _times |-> 0])]
    ELSE [exc |-> "None", value |-> inst[times], instances |-> inst, heap |-> h]

\* __new__, lines 206-226: the new object is stored before it has a _times
RootMultipleRoll_new(inst, h, times) ==
    IF times \notin DOMAIN inst
    THEN LET instance == Object(h, times)
         IN  [exc |-> "None", value |-> instance,
              instances |-> inst @@ (times :> instance),
              heap |-> h @@ (instance.id :> [init |-> FALSE, _times |-> 0])]
    ELSE [exc |-> "None", value |-> inst[times], instances |-> inst, heap |-> h]

\* __init__, lines 228-240
RootMultipleRoll_init(h, self, times) ==
    IF ~ h[self.id].init
    THEN [h EXCEPT ![self.id] = [init |-> TRUE, _times |-> times]]
    ELSE h

\* MultipleRoll(times): __new__, then __init__ on the object it returned
RootMultipleRoll_call(inst, h, times) ==
    LET n == RootMultipleRoll_new(inst, h, times)
    IN  [n EXCEPT !.heap = RootMultipleRoll_init(n.heap, n.value, times)]

\* b = MultipleRoll(times): the caller keeps the strategy under one name
RootNewMultipleRoll ==
    \E times \in TimesArgs :
        LET r == RootMultipleRoll_call(instances, heap, times)
            outcome == [op |-> "MultipleRoll", times |-> times,
                        ret |-> [exc |-> r.exc, value |-> r.value]]
        IN  /\ instances' = r.instances
            /\ heap' = r.heap
            /\ held' = [held EXCEPT !.b = outcome]
            /\ last' = outcome
            /\ UNCHANGED <<dice, given, threads, diceFactory, made>>

\* del b: the caller drops the reference it holds; the dict of line 204
\* keeps its own
RootDropReferences ==
    /\ held # [a |-> NoCall, b |-> NoCall]
    /\ held' = [a |-> NoCall, b |-> NoCall]
    /\ last' = [op |-> "del"]
    /\ UNCHANGED <<dice, given, instances, heap, threads, diceFactory, made>>

\* b.roll(dice, modifier) with the strategy the caller holds
RootStrategyRoll ==
    \E s \in Referenced(held), modifier \in Modifiers :
        \E tape \in Tapes(dice, TapeLen(heap, s)) :
            /\ last' = [op |-> "strategy_roll", strategy |-> s, modifier |-> modifier,
                        ret |-> Strategy_roll(heap, s, dice, modifier, tape)]
            /\ UNCHANGED <<dice, given, instances, heap, held, threads, diceFactory, made>>

NextRootStrategies ==
    \/ RootNewMultipleRoll
    \/ RootDropReferences
    \/ RootStrategyRoll

SpecRootStrategies == InitWithDice /\ [][NextRootStrategies]_vars

---------------------------------------------------------------------------
(* C2: MultipleRoll(times) with times < 1 fails with an error; no strategy *)
(* comes to exist whose roll returns just the modifier.                    *)
C2_TimesValidated ==
    /\ (last.op = "MultipleRoll" /\ last.times < 1) => last.ret.exc # "None"
    /\ \A id \in DOMAIN heap : heap[id].init => heap[id]._times >= 1
    /\ (last.op = "strategy_roll" /\ last.ret.exc = "None") =>
          /\ Len(last.ret.calls) >= 1
          /\ last.ret.value = SumOfValues(last.ret.calls) + last.modifier

\* what the second part of C2 excludes happens: a roll made no draw and
\* returned the modifier
C2_ModifierOnly ==
    ~ ( /\ last.op = "strategy_roll"
        /\ last.ret.exc = "None"
        /\ last.ret.calls = <<>>
        /\ last.ret.value = last.modifier )

\* the roll of C3 as the root-level revision performs it, where the
\* constructor returns a strategy: the same text of roll, lines 253-275
RootSumOfN ==
    (last.op = "strategy_roll" /\ last.ret.exc = "None") =>
        LET r == last.ret
            k == heap[last.strategy.id]._times
        IN  /\ Len(r.calls) = Max(0, k)
            /\ \A i \in 1 .. Len(r.calls) :
                  /\ r.calls[i].smallest = dice._smallest_side
                  /\ r.calls[i].biggest = dice._biggest_side
            /\ r.value = SumOfValues(r.calls) + last.modifier
            /\ k >= 1 => /\ k * dice._smallest_side + last.modifier <= r.value
                         /\ r.value <= k * dice._biggest_side + last.modifier

---------------------------------------------------------------------------
(* C11: the cache of Sum-of-N instances is cleared only on request: an     *)
(* entry for times = k stays in the cache across every step that is not a  *)
(* call of clear_instances, whether the step constructs a strategy for     *)
(* other times, rolls, or drops the caller's references.                   *)
C11_CacheKept ==
    [][ \A k \in DOMAIN instances :
            last'.op = "clear_instances" \/ k \in DOMAIN instances' ]_vars

\* an entry is in the cache after the caller dropped its references
C11_Witness ==
    /\ last.op = "del"
    /\ DOMAIN instances # {}

---------------------------------------------------------------------------
(* Threads that construct Sum-of-N strategies concurrently.  Each thread   *)
(* calls MultipleRoll(times) once and then rolls with what the call        *)
(* returned.  The interpreter switches threads between statements, so each *)
(* statement of __new__ and __init__ is a step of its own; _instances and  *)
(* the objects are shared.                                                 *)

At(t, pc) == threads[t].pc = pc

\* the thread begins the call MultipleRoll(times)
ThreadCall(t) ==
    \E times \in TimesArgs :
        /\ At(t, "idle")
        /\ threads' = [threads EXCEPT ![t] = [pc |-> "new_check", times |-> times]]
        /\ UNCHANGED <<dice, given, instances, heap, held, last, diceFactory, made>>

\* package, __new__ lines 255-256: a hit returns the cached object, on which
\* the generated __init__ then stores times
PkgThreadNewCheck(t) ==
    /\ At(t, "new_check")
    /\ IF threads[t].times \in DOMAIN instances
       THEN LET self == instances[threads[t].times]
            IN  /\ threads' = [threads EXCEPT ![t] =
                        [pc |-> "done", times |-> threads[t].times, self |-> self]]
                /\ heap' = MultipleRoll_init(heap, self, threads[t].times)
       ELSE /\ threads' = [threads EXCEPT ![t].pc = "new_create"]
            /\ heap' = heap
    /\ UNCHANGED <<dice, given, instances, held, last, diceFactory, made>>

\* package, __new__ line 257: super().__new__() raises TypeError, which ends
\* the call; lines 258-260 are not reached
PkgThreadNewCreate(t) ==
    /\ At(t, "new_create")
    /\ threads' = [threads EXCEPT ![t] =
            [pc |-> "raised", times |-> threads[t].times,
             exc |-> MultipleRoll_new(instances, heap, threads[t].times).exc]]
    /\ UNCHANGED <<dice, given, instances, heap, held, last, diceFactory, made>>

NextThreads ==
    \E t \in Threads :
        \/ ThreadCall(t)
        \/ PkgThreadNewCheck(t)
        \/ PkgThreadNewCreate(t)

SpecThreads == InitWithDice /\ [][NextThreads]_vars

\* root-level revision, __new__ line 223: if times not in cls._instances
RootThreadNewCheck(t) ==
    /\ At(t, "new_check")
    /\ threads' = [threads EXCEPT ![t].pc =
            IF threads[t].times \notin DOMAIN instances THEN "new_create" ELSE "new_return"]
    /\ UNCHANGED <<dice, given, instances, heap, held, last, diceFactory, made>>

\* line 224: instance = super().__new__(cls), an object without _times
RootThreadNewCreate(t) ==
    /\ At(t, "new_create")
    /\ LET instance == Object(heap, threads[t].times)
       IN  /\ heap' = heap @@ (instance.id :> [init |-> FALSE, _times |-> 0])
           /\ threads' = [threads EXCEPT ![t] =
                   [pc |-> "new_insert", times |-> threads[t].times,
                    instance |-> instance]]
    /\ UNCHANGED <<dice, given, instances, held, last, diceFactory, made>>

\* line 225: cls._instances[times] = instance, over whatever is there
RootThreadNewInsert(t) ==
    /\ At(t, "new_insert")
    /\ instances' = (threads[t].times :> threads[t].instance) @@ instances
    /\ threads' = [threads EXCEPT ![t] = [pc |-> "new_return", times |-> threads[t].times]]
    /\ UNCHANGED <<dice, given, heap, held, last, diceFactory, made>>

\* line 226: return cls._instances[times]; __init__ is then called on it
RootThreadNewReturn(t) ==
    /\ At(t, "new_return")
    /\ threads' = [threads EXCEPT ![t] =
            [pc |-> "init_check", times |-> threads[t].times,
             self |-> instances[threads[t].times]]]
    /\ UNCHANGED <<dice, given, instances, heap, held, last, diceFactory, made>>

\* __init__ line 239: if not hasattr(self, "_times")
RootThreadInitCheck(t) ==
    /\ At(t, "init_check")
    /\ threads' = [threads EXCEPT ![t].pc =
            IF ~ heap[threads[t].self.id].init THEN "init_set" ELSE "done"]
    /\ UNCHANGED <<dice, given, instances, heap, held, last, diceFactory, made>>

\* line 240: self._times = times
RootThreadInitSet(t) ==
    /\ At(t, "init_set")
    /\ heap' = [heap EXCEPT ![threads[t].self.id] =
                    [init |-> TRUE, _times |-> threads[t].times]]
    /\ threads' = [threads EXCEPT ![t].pc = "done"]
    /\ UNCHANGED <<dice, given, instances, held, last, diceFactory, made>>

\* the thread rolls with the strategy its call returned: roll, lines 253-275
ThreadRoll(t) ==
    /\ At(t, "done")
    /\ \E modifier \in Modifiers :
        \E tape \in Tapes(dice, TapeLen(heap, threads[t].self)) :
            threads' = [threads EXCEPT ![t] =
                [pc |-> "rolled", times |-> threads[t].times, self |-> threads[t].self,
                 modifier |-> modifier,
                 ret |-> Strategy_roll(heap, threads[t].self, dice, modifier, tape)]]
    /\ UNCHANGED <<dice, given, instances, heap, held, last, diceFactory, made>>

NextRootThreads ==
    \E t \in Threads :
        \/ ThreadCall(t)
        \/ RootThreadNewCheck(t)
        \/ RootThreadNewCreate(t)
        \/ RootThreadNewInsert(t)
        \/ RootThreadNewReturn(t)
        \/ RootThreadInitCheck(t)
        \/ RootThreadInitSet(t)
        \/ ThreadRoll(t)

SpecRootThreads == InitWithDice /\ [][NextRootThreads]_vars

---------------------------------------------------------------------------
(* C12: whatever the interleaving of threads that construct Sum-of-N       *)
(* strategies at once, every thread whose call MultipleRoll(k), k >= 1,    *)
(* has ended holds an initialised instance with times = k, and every roll  *)
(* with it returns the sum of exactly k draws plus the modifier; a race    *)
(* makes redundant instances at worst.                                     *)
C12_RaceBenign ==
    \A t \in Threads :
        (threads[t].pc \in {"done", "raised", "rolled"} /\ threads[t].times >= 1) =>
            /\ threads[t].pc # "raised"
            /\ heap[threads[t].self.id].init
            /\ heap[threads[t].self.id]._times = threads[t].times
            /\ threads[t].pc = "rolled" =>
                  /\ threads[t].ret.exc = "None"
                  /\ Len(threads[t].ret.calls) = threads[t].times
                  /\ threads[t].ret.value =
                        SumOfValues(threads[t].ret.calls) + threads[t].modifier

\* a race of the root-level revision: two objects exist for one times
C12_Redundant ==
    ~ \E i \in DOMAIN heap, j \in DOMAIN heap : i # j /\ i[1] = j[1]

\* two threads hold different objects for the same times and have rolled
C12_RootWitness ==
    \E t \in Threads, u \in Threads :
        /\ threads[t].pc = "rolled" /\ threads[u].pc = "rolled"
        /\ threads[t].times = threads[u].times
        /\ threads[t].self # threads[u].self

---------------------------------------------------------------------------
(* The factories.  DiceFactory of the package:                             *)
(* src/src/diceroller/dice_factory.py; DefaultDiceFabric of the root-level *)
(* revision: src/dice.py 56-100.  Here objects have an identity: an object *)
(* is its class and a number, 0 for the random source the caller or the    *)
(* fabric makes, n for what the construction of the n-th Dice makes.       *)

New(class, n) == [cls |-> class.cls, id |-> n]

\* field(default_factory = class): a call of the class for an omitted argument
DefaultFactory(arg, class, n) == IF arg = Omitted THEN New(class, n) ELSE arg

\* Dice(smallest, biggest, rs, strategy) as the n-th Dice constructed
Dice_created(smallest, biggest, rs, strategy, n) ==
    Dice_new(smallest, biggest,
             DefaultFactory(rs, DefaultRandomStrategy, n),
             DefaultFactory(strategy, DefaultRoll, n))

RootDice_created(smallest, biggest, rs, strategy, n) ==
    RootDice_new(smallest, biggest,
                 DefaultFactory(rs, DefaultRandomStrategy, n),
                 DefaultFactory(strategy, DefaultRoll, n))

\* _TABLES, lines 44-51, and the order of its keys
DiceFactory_TABLES ==
    ("d4" :> <<1, 4>>) @@ ("d6" :> <<1, 6>>) @@ ("d8" :> <<1, 8>>) @@
    ("d10" :> <<0, 9>>) @@ ("d12" :> <<1, 12>>) @@ ("d20" :> <<1, 20>>)

DiceNames == <<"d4", "d6", "d8", "d10", "d12", "d20">>

IndexOf(name) == CHOOSE i \in 1 .. Len(DiceNames) : DiceNames[i] = name

\* the number of Dice the calls recorded in m returned
RECURSIVE DiceCount(_)
DiceCount(m) == IF m = <<>> THEN 0 ELSE Cardinality(DOMAIN Head(m)) + DiceCount(Tail(m))

\* __init__, lines 53-65
DiceFactory_init(random_strategy) ==
    [cls |-> "DiceFactory", _randomStrategy |-> random_strategy]

\* _make_dice were it to leave the random source to the Dice's default
DiceFactory_make_dice_OwnSource(self, smallest, biggest, n) ==
    Dice_created(smallest, biggest, Omitted, Omitted, n)

\* _make_dice, lines 85-100
DiceFactory_make_dice(self, smallest, biggest, n) ==
    Dice_created(smallest, biggest, self._randomStrategy, Omitted, n)

\* _make_dice_set, lines 67-83: one _make_dice per entry of _TABLES
DiceFactory_make_dice_set(self, n) ==
    [name \in DOMAIN DiceFactory_TABLES |->
        DiceFactory_make_dice(self, DiceFactory_TABLES[name][1],
                              DiceFactory_TABLES[name][2], n + IndexOf(name)).value]

\* d4, d6, d8, d10, d12, d20, lines 102-163
DiceFactory_d(self, name, n) ==
    CASE name = "d4" -> DiceFactory_make_dice(self, 1, 4, n)
      [] name = "d6" -> DiceFactory_make_dice(self, 1, 6, n)
      [] name = "d8" -> DiceFactory_make_dice(self, 1, 8, n)
      [] name = "d10" -> DiceFactory_make_dice(self, 0, 9, n)
      [] name = "d12" -> DiceFactory_make_dice(self, 1, 12, n)
      [] name = "d20" -> DiceFactory_make_dice(self, 1, 20, n)

\* DefaultDiceFabric(): an object without attributes (None stands for the
\* attribute that is not there)
DefaultDiceFabric_init == [cls |-> "DefaultDiceFabric", _randomizationStrategy |-> None]

\* get_randomizationStrategy, src/dice.py 96-100
DefaultDiceFabric_get_randomizationStrategy(self) ==
    LET made_now == IF self._randomizationStrategy = None
                    THEN [self EXCEPT !._randomizationStrategy = New(DefaultRandomStrategy, 0)]
                    ELSE self
    IN  [self |-> made_now, value |-> made_now._randomizationStrategy]

\* create_d4 .. create_d20, src/dice.py 70-86
DefaultDiceFabric_create(self, name, n) ==
    LET g == DefaultDiceFabric_get_randomizationStrategy(self)
        d == CASE name = "d4" -> RootDice_created(1, 4, g.value, Omitted, n)
               [] name = "d6" -> RootDice_created(1, 6, g.value, Omitted, n)
               [] name = "d8" -> RootDice_created(1, 8, g.value, Omitted, n)
               [] name = "d10" -> RootDice_created(0, 9, g.value, Omitted, n)
               [] name = "d12" -> RootDice_created(1, 12, g.value, Omitted, n)
               [] name = "d20" -> RootDice_created(1, 20, g.value, Omitted, n)
    IN  [self |-> g.self, exc |-> d.exc, value |-> d.value]

\* create_dice_set, src/dice.py 60-68; the first create_ call makes the
\* random source, the others find it
DefaultDiceFabric_create_dice_set(self, n) ==
    LET after == DefaultDiceFabric_get_randomizationStrategy(self).self
    IN  [self |-> after,
         value |-> [name \in {DiceNames[i] : i \in 1 .. Len(DiceNames)} |->
                        DefaultDiceFabric_create(after, name, n + IndexOf(name)).value]]

\* the random source of a factory of either kind
SourceOf(f) ==
    IF f.cls = "DiceFactory" THEN f._randomStrategy ELSE f._randomizationStrategy

\* factory = DiceFactory(S) with a random source S the caller made
NewDiceFactory ==
    /\ diceFactory = NoFactory
    /\ \E class \in RandomStrategies :
          diceFactory' = DiceFactory_init(New(class, 0))
    /\ UNCHANGED <<dice, given, instances, heap, held, last, threads, made>>

\* factory = DefaultDiceFabric()
NewDefaultDiceFabric ==
    /\ diceFactory = NoFactory
    /\ diceFactory' = DefaultDiceFabric_init
    /\ UNCHANGED <<dice, given, instances, heap, held, last, threads, made>>

\* factory.d4() .. factory.d20()
FactoryDie ==
    /\ diceFactory.cls = "DiceFactory"
    /\ Len(made) < MaxCalls
    /\ \E name \in DOMAIN DiceFactory_TABLES :
          made' = Append(made,
                         name :> DiceFactory_d(diceFactory, name, DiceCount(made) + 1).value)
    /\ UNCHANGED <<dice, given, instances, heap, held, last, threads, diceFactory>>

\* factory._make_dice_set()
FactoryDiceSet ==
    /\ diceFactory.cls = "DiceFactory"
    /\ Len(made) < MaxCalls
    /\ made' = Append(made, DiceFactory_make_dice_set(diceFactory, DiceCount(made)))
    /\ UNCHANGED <<dice, given, instances, heap, held, last, threads, diceFactory>>

\* fabric.create_d4() .. fabric.create_d20()
FabricDie ==
    /\ diceFactory.cls = "DefaultDiceFabric"
    /\ Len(made) < MaxCalls
    /\ \E name \in DOMAIN DiceFactory_TABLES :
          LET r == DefaultDiceFabric_create(diceFactory, name, DiceCount(made) + 1)
          IN  /\ diceFactory' = r.self
              /\ made' = Append(made, name :> r.value)
    /\ UNCHANGED <<dice, given, instances, heap, held, last, threads>>

\* fabric.create_dice_set()
FabricDiceSet ==
    /\ diceFactory.cls = "DefaultDiceFabric"
    /\ Len(made) < MaxCalls
    /\ LET r == DefaultDiceFabric_create_dice_set(diceFactory, DiceCount(made))
       IN  /\ diceFactory' = r.self
           /\ made' = Append(made, r.value)
    /\ UNCHANGED <<dice, given, instances, heap, held, last, threads>>

NextFactory ==
    \/ NewDiceFactory
    \/ NewDefaultDiceFabric
    \/ FactoryDie
    \/ FactoryDiceSet
    \/ FabricDie
    \/ FabricDiceSet

SpecFactory == InitIdle /\ [][NextFactory]_vars

---------------------------------------------------------------------------
(* C13: every die a factory built with random source S produces, by d4 ..  *)
(* d20 or in the bulk dice set, holds that same instance S as its random   *)
(* source and has the standard range of its name ([0, 9] for d10, [1, N]   *)
(* for every other dN), and no two dice of the factory share a roll        *)
(* strategy instance.                                                      *)
Faces == ("d4" :> 4) @@ ("d6" :> 6) @@ ("d8" :> 8) @@ ("d10" :> 10) @@
         ("d12" :> 12) @@ ("d20" :> 20)

\* the dice produced so far: <<call, name>>
Produced == { x \in (1 .. Len(made)) \X DOMAIN Faces : x[2] \in DOMAIN made[x[1]] }

C13_Factory ==
    /\ \A x \in Produced :
          LET d == made[x[1]][x[2]]
          IN  /\ d.kind = "Dice"
              /\ d._randomization_strategy = SourceOf(diceFactory)
              /\ d._smallest_side = IF x[2] = "d10" THEN 0 ELSE 1
              /\ d._biggest_side = IF x[2] = "d10" THEN 9 ELSE Faces[x[2]]
    /\ \A x \in Produced, y \in Produced :
          x # y => made[x[1]][x[2]]._roll_strategy # made[y[1]][y[2]]._roll_strategy
    /\ \A i \in 1 .. Len(made) : DOMAIN made[i] \subseteq DOMAIN Faces

\* a dice set and a single die have been produced by the same factory
C13_Witness ==
    /\ diceFactory.cls = "DiceFactory"
    /\ \E i \in 1 .. Len(made), j \in 1 .. Len(made) :
          /\ Cardinality(DOMAIN made[i]) = Len(DiceNames)
          /\ DOMAIN made[j] = {"d10"}

---------------------------------------------------------------------------
(* C14: validation of the die prevents invalid draws: on every Dice that   *)
(* construction lets exist, every roll and every check_success, with any   *)
(* roll strategy, calls the random source only with smallest < biggest.    *)
CallsOf(c) ==
    IF c.op \in {"roll", "roll_sum", "strategy_roll"}
    THEN {c.ret.calls}
    ELSE IF c.op = "check_success"
         THEN {c.ret.rolls[i].calls : i \in 1 .. Len(c.ret.rolls)}
         ELSE {}

C14_ValidDraws ==
    \A calls \in CallsOf(last) :
        \A i \in 1 .. Len(calls) : calls[i].smallest < calls[i].biggest

\* a roll or a check_success has drawn twice from the random source
C14_Witness ==
    /\ last.op \in {"roll", "check_success"}
    /\ \E calls \in CallsOf(last) : Len(calls) = 2

---------------------------------------------------------------------------
(* C15: the sharing of Sum-of-N instances is invisible to callers: every   *)
(* call MultipleRoll(k), k >= 1, returns an instance whose times is k,     *)
(* every cache entry for k maps to an instance whose times is k, and an    *)
(* instance a caller holds keeps the times it was asked for across later   *)
(* constructions, rolls and clears of the cache.                           *)
C15_SharingInvisible ==
    /\ (last.op = "MultipleRoll" /\ last.times >= 1) =>
          /\ last.ret.exc = "None"
          /\ MultipleRoll_times(heap, last.ret.value) = Return(last.times)
    /\ \A k \in DOMAIN instances :
          MultipleRoll_times(heap, instances[k]) = Return(k)
    /\ \A c \in {held.a, held.b} :
          (c.op = "MultipleRoll" /\ c.ret.exc = "None") =>
              MultipleRoll_times(heap, c.ret.value) = Return(c.times)

\* in the root-level revision the caller has rolled with the instance it
\* holds while the cache has entries for two values of times
C15_RootWitness ==
    /\ last.op = "strategy_roll"
    /\ held.b.op = "MultipleRoll"
    /\ Cardinality(DOMAIN instances) >= 2

====
